---- MODULE Spec2Model ----
(* Model of src/main.py: the research assistant's read-query loop (main),   *)
(* the per-query pipeline (research_topic) and the JSON recovery routine     *)
(* (clean_json_response).  Python str values are sequences of one-character  *)
(* strings, so that slicing, regular expressions and json.loads are          *)
(* computed character by character.                                          *)
EXTENDS Integers, Sequences, FiniteSets, TLC

\* ------------------------------------------------------------------ bounds
\* longest text of the exhaustively enumerated model outputs
MaxLen == 3
\* number of queries the loop serves before only "quit" is accepted
MaxQueries == 2
\* depth at which json.loads gives up with RecursionError (the interpreter's
\* recursion limit, scaled down)
RecursionLimit == 3

\* ------------------------------------------------------- program constants
\* response[:200] and len(response) > 200
SummaryLimit == 200

QUOTE == "\""
NL == "\n"
\* the backtick character (the module's lexer has no string for it)
TICK == "BACKTICK"

\* ------------------------------------------------------------ text helpers
Min(S) == CHOOSE x \in S : \A y \in S : x <= y
Max(S) == CHOOSE x \in S : \A y \in S : x >= y

\* whitespace of the model alphabet (json's ' \t\n\r' and the regex class \s)
IsWs(c) == c \in {" ", NL}

\* index of the first non-whitespace character at or after i, Len(s)+1 if none
SkipWs(s, i) ==
  LET rest == {j \in i..Len(s) : ~IsWs(s[j])}
  IN IF rest = {} THEN Max({i, Len(s) + 1}) ELSE Min(rest)

StartsWithAt(s, i, p) ==
  /\ i >= 1
  /\ i + Len(p) - 1 <= Len(s)
  /\ \A k \in 1..Len(p) : s[i + k - 1] = p[k]

\* str.strip()
Strip(s) ==
  LET keep == {j \in 1..Len(s) : ~IsWs(s[j])}
  IN IF keep = {} THEN <<>> ELSE SubSeq(s, Min(keep), Max(keep))

\* str.lower() on the letters of the query alphabet
LowerChar(c) ==
  CASE c = "Q" -> "q"
    [] c = "U" -> "u"
    [] c = "I" -> "i"
    [] c = "T" -> "t"
    [] OTHER -> c

Lower(s) == [i \in 1..Len(s) |-> LowerChar(s[i])]

\* ------------------------------------------------------------ Python values
\* A value is a record [t, v]: str (sequence of characters), list (sequence
\* of values), dict (function from key to value), bool, None.
PyStr(s) == [t |-> "str", v |-> s]
PyList(l) == [t |-> "list", v |-> l]
PyDict(f) == [t |-> "dict", v |-> f]
PyBool(b) == [t |-> "bool", v |-> b]
PyNone == [t |-> "None", v |-> <<>>]

EmptyDict == [k \in {} |-> PyNone]

\* d[k] = val (a repeated key keeps the last value)
DictPut(f, k, val) == [x \in (DOMAIN f) \cup {k} |-> IF x = k THEN val ELSE f[x]]

\* dict.get(key, default)
DictGet(d, k, default) == IF k \in DOMAIN d.v THEN d.v[k] ELSE default

\* ------------------------------------------------------------- json.loads
\* Outcome of a parse: st is "ok", "JSONDecodeError" or "RecursionError".
Ok(val, end) == [st |-> "ok", val |-> val, end |-> end]
DecodeError == [st |-> "JSONDecodeError", val |-> PyNone, end |-> 0]
RecursionError == [st |-> "RecursionError", val |-> PyNone, end |-> 0]

\* a string literal starting at the quote s[i]: it runs to the next quote;
\* a control character inside it is rejected (strict mode)
ParseString(s, i) ==
  LET stops == {j \in (i + 1)..Len(s) : s[j] = QUOTE \/ s[j] = NL}
  IN IF stops = {} THEN DecodeError
     ELSE LET j == Min(stops)
          IN IF s[j] = NL THEN DecodeError
             ELSE Ok(PyStr(SubSeq(s, i + 1, j - 1)), j + 1)

RECURSIVE ParseValue(_, _, _)
RECURSIVE ParseMembers(_, _, _, _)
RECURSIVE ParseElements(_, _, _, _)

\* members of an object, i at the place where a key must start
ParseMembers(s, i, d, acc) ==
  IF i > Len(s) \/ s[i] # QUOTE THEN DecodeError
  ELSE LET k == ParseString(s, i)
       IN IF k.st # "ok" THEN k
          ELSE LET c == SkipWs(s, k.end)
               IN IF c > Len(s) \/ s[c] # ":" THEN DecodeError
                  ELSE LET val == ParseValue(s, SkipWs(s, c + 1), d + 1)
                       IN IF val.st # "ok" THEN val
                          ELSE LET e == SkipWs(s, val.end)
                                   acc2 == DictPut(acc, k.val.v, val.val)
                               IN IF e > Len(s) THEN DecodeError
                                  ELSE IF s[e] = "}" THEN Ok(PyDict(acc2), e + 1)
                                  ELSE IF s[e] = ","
                                       THEN ParseMembers(s, SkipWs(s, e + 1), d, acc2)
                                  ELSE DecodeError

\* elements of an array, i at the place where a value must start
ParseElements(s, i, d, acc) ==
  LET val == ParseValue(s, i, d + 1)
  IN IF val.st # "ok" THEN val
     ELSE LET e == SkipWs(s, val.end)
              acc2 == Append(acc, val.val)
          IN IF e > Len(s) THEN DecodeError
             ELSE IF s[e] = "]" THEN Ok(PyList(acc2), e + 1)
             ELSE IF s[e] = "," THEN ParseElements(s, SkipWs(s, e + 1), d, acc2)
             ELSE DecodeError

\* scan_once at nesting depth d
ParseValue(s, i, d) ==
  IF d > RecursionLimit THEN RecursionError
  ELSE IF i > Len(s) THEN DecodeError
  ELSE IF s[i] = QUOTE THEN ParseString(s, i)
  ELSE IF s[i] = "{"
       THEN LET j == SkipWs(s, i + 1)
            IN IF j <= Len(s) /\ s[j] = "}" THEN Ok(PyDict(EmptyDict), j + 1)
               ELSE ParseMembers(s, j, d, EmptyDict)
  ELSE IF s[i] = "["
       THEN LET j == SkipWs(s, i + 1)
            IN IF j <= Len(s) /\ s[j] = "]" THEN Ok(PyList(<<>>), j + 1)
               ELSE ParseElements(s, j, d, <<>>)
  ELSE IF StartsWithAt(s, i, <<"n", "u", "l", "l">>) THEN Ok(PyNone, i + 4)
  ELSE IF StartsWithAt(s, i, <<"t", "r", "u", "e">>) THEN Ok(PyBool(TRUE), i + 4)
  ELSE IF StartsWithAt(s, i, <<"f", "a", "l", "s", "e">>) THEN Ok(PyBool(FALSE), i + 5)
  ELSE DecodeError

\* json.loads(s): one value, surrounded by optional whitespace, nothing else
json_loads(s) ==
  LET r == ParseValue(s, SkipWs(s, 1), 1)
  IN IF r.st # "ok" THEN r
     ELSE IF SkipWs(s, r.end) # Len(s) + 1 THEN DecodeError
     ELSE r

\* ---------------------------------------------------- clean_json_response
\* re.search(r'\{[\s\S]*\}', response): from the first "{" to the last "}",
\* <<>> when there is no match
json_match(response) ==
  LET opens == {j \in 1..Len(response) : response[j] = "{"}
      closes == {j \in 1..Len(response) : response[j] = "}"}
  IN IF opens = {} \/ closes = {} \/ Max(closes) < Min(opens) THEN <<>>
     ELSE SubSeq(response, Min(opens), Max(closes))

FenceJson == <<TICK, TICK, TICK, "j", "s", "o", "n">>
Fence == <<TICK, TICK, TICK>>

\* re.sub of line 43: remove every match of (three backticks, json, any
\* whitespace) or (any whitespace, three backticks), scanning from position i
\* a match of the pattern starts at p: the first alternative is tried first
FenceMatchAt(s, p) ==
  StartsWithAt(s, p, FenceJson) \/ StartsWithAt(s, SkipWs(s, p), Fence)

\* the position after the match that starts at p
FenceMatchEnd(s, p) ==
  IF StartsWithAt(s, p, FenceJson) THEN SkipWs(s, p + 7) ELSE SkipWs(s, p) + 3

RECURSIVE SubFences(_, _)
SubFences(s, i) ==
  LET starts == {p \in i..Len(s) : FenceMatchAt(s, p)}
  IN IF starts = {} THEN SubSeq(s, i, Len(s))
     ELSE SubSeq(s, i, Min(starts) - 1) \o SubFences(s, FenceMatchEnd(s, Min(starts)))

ResearchTopicStr == <<"R", "e", "s", "e", "a", "r", "c", "h", " ", "T", "o", "p", "i", "c">>
SearchResultsStr == <<"I", "n", "f", "o", "r", "m", "a", "t", "i", "o", "n", " ", "f", "r", "o", "m", " ", "s", "e", "a", "r", "c", "h", " ", "r", "e", "s", "u", "l", "t", "s">>
WikipediaStr == <<"W", "i", "k", "i", "p", "e", "d", "i", "a">>
WebSearchStr == <<"W", "e", "b", " ", "S", "e", "a", "r", "c", "h">>
NoSummaryStr == <<"N", "o", " ", "s", "u", "m", "m", "a", "r", "y", " ", "a", "v", "a", "i", "l", "a", "b", "l", "e">>
UnableStr == <<"U", "n", "a", "b", "l", "e", " ", "t", "o", " ", "p", "a", "r", "s", "e", " ", "r", "e", "s", "p", "o", "n", "s", "e", " ", "p", "r", "o", "p", "e", "r", "l", "y">>
Ellipsis == <<".", ".", ".">>

K_topic == <<"t", "o", "p", "i", "c">>
K_summary == <<"s", "u", "m", "m", "a", "r", "y">>
K_sources == <<"s", "o", "u", "r", "c", "e", "s">>
K_tools_used == <<"t", "o", "o", "l", "s", "_", "u", "s", "e", "d">>

DefaultTopic == PyStr(ResearchTopicStr)
DefaultSources == PyList(<<PyStr(SearchResultsStr)>>)
DefaultTools == PyList(<<PyStr(WikipediaStr), PyStr(WebSearchStr)>>)

\* response[:200] + "..." if len(response) > 200 else response
TruncatedSummary(response) ==
  IF Len(response) > SummaryLimit
  THEN SubSeq(response, 1, SummaryLimit) \o Ellipsis
  ELSE response

FallbackDict(summary) ==
  PyDict(DictPut(DictPut(DictPut(DictPut(EmptyDict,
    K_topic, DefaultTopic),
    K_summary, PyStr(summary)),
    K_sources, DefaultSources),
    K_tools_used, DefaultTools))

Return(val) == [kind |-> "return", val |-> val, exc |-> "none"]
Raise(exc) == [kind |-> "raise", val |-> PyNone, exc |-> exc]

\* the handler of the first JSONDecodeError (lines 36-54): an exception that
\* is not a JSONDecodeError leaves the function, and so does the end of the
\* handler when the search finds nothing (the function then returns None)
CleanCandidate(response) ==
  LET m == json_match(response)
  IN IF m = <<>> THEN Return(PyNone)
     ELSE LET json_str == Strip(SubFences(m, 1))
              r == json_loads(json_str)
          IN IF r.st = "ok" THEN Return(r.val)
             ELSE IF r.st = "JSONDecodeError"
                  THEN Return(FallbackDict(TruncatedSummary(response)))
             ELSE Raise(r.st)

\* variant: the catch-all handler builds the same record as the inner handler
clean_json_response_same_fallback(response) ==
  LET r == json_loads(response)
  IN IF r.st = "ok" THEN Return(r.val)
     ELSE IF r.st = "JSONDecodeError" THEN CleanCandidate(response)
     ELSE Return(FallbackDict(TruncatedSummary(response)))

clean_json_response(response) ==
  LET r == json_loads(response)
  IN IF r.st = "ok" THEN Return(r.val)
     ELSE IF r.st = "JSONDecodeError" THEN CleanCandidate(response)
     ELSE Return(FallbackDict(UnableStr))

\* ------------------------------------------------------- ResearchResponse
\* the pydantic model of lines 13-17: topic and summary must be str, sources
\* and tools_used lists of str; anything else is a ValidationError
IsStr(x) == x.t = "str"
IsStrList(x) == x.t = "list" /\ \A i \in 1..Len(x.v) : x.v[i].t = "str"

ResearchResponse(topic, summary, sources, tools_used) ==
  IF IsStr(topic) /\ IsStr(summary) /\ IsStrList(sources) /\ IsStrList(tools_used)
  THEN Return([t |-> "ResearchResponse",
               v |-> [topic |-> topic, summary |-> summary,
                      sources |-> sources, tools_used |-> tools_used]])
  ELSE Raise("ValidationError")

\* lines 120-125: the four .get calls (AttributeError when response_dict has
\* no get method) and the constructor
\* variant: the sources default is an empty list
BuildRecord_empty_default(d) ==
  IF d.t # "dict" THEN Raise("AttributeError")
  ELSE ResearchResponse(DictGet(d, K_topic, DefaultTopic),
                        DictGet(d, K_summary, PyStr(NoSummaryStr)),
                        DictGet(d, K_sources, PyList(<<>>)),
                        DictGet(d, K_tools_used, DefaultTools))

\* variant: the defaults of sources and tools_used are exchanged
BuildRecord_swapped_defaults(d) ==
  IF d.t # "dict" THEN Raise("AttributeError")
  ELSE ResearchResponse(DictGet(d, K_topic, DefaultTopic),
                        DictGet(d, K_summary, PyStr(NoSummaryStr)),
                        DictGet(d, K_sources, DefaultTools),
                        DictGet(d, K_tools_used, DefaultSources))

BuildRecord(d) ==
  IF d.t # "dict" THEN Raise("AttributeError")
  ELSE ResearchResponse(DictGet(d, K_topic, DefaultTopic),
                        DictGet(d, K_summary, PyStr(NoSummaryStr)),
                        DictGet(d, K_sources, DefaultSources),
                        DictGet(d, K_tools_used, DefaultTools))

\* --------------------------------------------------------------- the inputs
\* lines typed at the prompt
QuitStr == <<"q", "u", "i", "t">>
Lines ==
  { QuitStr, <<"Q", "U", "I", "T">>, <<"Q", "u", "i", "t">>, <<"q", "U", "i", "T">>,
    <<"q", "u", "i", "t", " ">>, <<"a", "i">> }

\* texts of the lookup collaborators
WikiTexts == {"wiki text"}
WebTexts == {"web text"}
NoWiki == "No Wikipedia information available."
NoWeb == "No web search information available."

\* n copies of the character c
Repeat(c, n) == [i \in 1..n |-> c]

RECURSIVE TextsUpTo(_, _)
TextsUpTo(A, n) ==
  IF n = 0 THEN {<<>>}
  ELSE LET shorter == TextsUpTo(A, n - 1)
       IN shorter \cup {Append(x, c) : x \in shorter, c \in A}

\* every text of at most MaxLen characters over these characters
EnumAlphabet == {"{", "}", "[", QUOTE, "a", " "}
ShortTexts == TextsUpTo(EnumAlphabet, MaxLen)

\* JSON object texts: each of the four keys is absent ("-") or has one of a
\* few value texts
JStr(x) == <<QUOTE>> \o x \o <<QUOTE>>
JList(x) == <<"[">> \o x \o <<"]">>
Member(k, x) == JStr(k) \o <<":">> \o x

RECURSIVE JoinComma(_)
JoinComma(ms) ==
  IF ms = <<>> THEN <<>>
  ELSE IF Len(ms) = 1 THEN ms[1]
  ELSE ms[1] \o <<",">> \o JoinComma(Tail(ms))

Absent == <<"-">>
MemberOrNone(k, x) == IF x = Absent THEN <<>> ELSE <<Member(k, x)>>

ObjectText(tp, sm, sr, tl) ==
  <<"{">> \o JoinComma(MemberOrNone(K_topic, tp) \o MemberOrNone(K_summary, sm)
                       \o MemberOrNone(K_sources, sr) \o MemberOrNone(K_tools_used, tl))
  \o <<"}">>

TopicTexts == {Absent, JStr(<<"x">>), <<"t", "r", "u", "e">>}
SummaryTexts == {Absent, JStr(<<"y">>), JStr(<<"y", " ">> \o FenceJson \o <<" ", "z">>)}
SourcesTexts == {Absent, JList(JStr(<<"u">>)), JList(<<>>), <<"n", "u", "l", "l">>}
ToolsTexts == {Absent, JList(JStr(<<"w">>)), JList(<<>>)}

ObjectTexts ==
  {ObjectText(tp, sm, sr, tl) :
     tp \in TopicTexts, sm \in SummaryTexts, sr \in SourcesTexts, tl \in ToolsTexts}

\* the markdown fence around a text, and prose before a text
Fenced(x) == FenceJson \o <<NL>> \o x \o <<NL>> \o Fence
Prosed(x) == <<"s", "e", "e", " ">> \o x

\* texts around the 200-character limit of the fallback summary
LongTexts ==
  { Repeat("a", SummaryLimit), Repeat("a", SummaryLimit + 1),
    <<"{">> \o Repeat("a", SummaryLimit - 2) \o <<"}">>,
    <<"{">> \o Repeat("a", SummaryLimit) \o <<"}">> }

\* texts nested up to and beyond the recursion limit
DeepTexts ==
  { Repeat("[", RecursionLimit + 1),
    Repeat("[", RecursionLimit) \o Repeat("]", RecursionLimit),
    Prosed(<<"{">> \o Member(<<"k">>, Repeat("[", RecursionLimit)) \o <<"}">>),
    Prosed(<<"{">> \o Member(<<"k">>, Repeat("[", RecursionLimit - 1)
                                       \o Repeat("]", RecursionLimit - 1)) \o <<"}">>),
    Repeat("[", RecursionLimit + 1) \o Repeat("a", SummaryLimit) }

\* what llm.invoke may return
Responses ==
  ShortTexts \cup ObjectTexts \cup {Fenced(x) : x \in ObjectTexts}
  \cup {Prosed(x) : x \in ObjectTexts} \cup LongTexts \cup DeepTexts

\* ---------------------------------------------------------------- the state
VARIABLES
  pc,            \* where main is: prompt, wiki, web, generate, normalize,
                 \* construct, display, save, done (returned) or crashed
  query,         \* the line read at the prompt
  wiki_result,   \* research_topic's locals
  web_result,
  prompt,        \* the argument of llm.invoke
  response,      \* its return value
  response_dict, \* outcome of clean_json_response(response)
  result,        \* main's result: a ResearchResponse or None
  calls,         \* the collaborator calls and printouts made for this query
  served,        \* number of queries taken so far
  appends        \* number of completed save_tool.run calls

vars == <<pc, query, wiki_result, web_result, prompt, response, response_dict,
          result, calls, served, appends>>

NoPrompt == [query |-> <<>>, combined_info |-> <<>>]
Unset == [kind |-> "unset", val |-> PyNone, exc |-> "none"]
Call(name, ok) == [name |-> name, ok |-> ok]

Init ==
  /\ pc = "prompt"
  /\ query = <<>>
  /\ wiki_result = ""
  /\ web_result = ""
  /\ prompt = NoPrompt
  /\ response = <<>>
  /\ response_dict = Unset
  /\ result = PyNone
  /\ calls = <<>>
  /\ served = 0
  /\ appends = 0

\* variant: the line is compared without lower()
ReadLine_case_sensitive ==
  /\ pc = "prompt"
  /\ \E line \in Lines :
       /\ query' = line
       /\ IF line = QuitStr
          THEN /\ pc' = "done"
               /\ UNCHANGED <<wiki_result, web_result, prompt, response,
                              response_dict, result, calls, served>>
          ELSE /\ served < MaxQueries
               /\ pc' = "wiki"
               /\ served' = served + 1
               /\ wiki_result' = ""
               /\ web_result' = ""
               /\ prompt' = NoPrompt
               /\ response' = <<>>
               /\ response_dict' = Unset
               /\ result' = PyNone
               /\ calls' = <<>>
  /\ UNCHANGED appends

\* lines 136-139: read a line; "quit" in any case leaves the loop
ReadLine ==
  /\ pc = "prompt"
  /\ \E line \in Lines :
       /\ query' = line
       /\ IF Lower(line) = QuitStr
          THEN /\ pc' = "done"
               /\ UNCHANGED <<wiki_result, web_result, prompt, response,
                              response_dict, result, calls, served>>
          ELSE /\ served < MaxQueries
               /\ pc' = "wiki"
               /\ served' = served + 1
               /\ wiki_result' = ""
               /\ web_result' = ""
               /\ prompt' = NoPrompt
               /\ response' = <<>>
               /\ response_dict' = Unset
               /\ result' = PyNone
               /\ calls' = <<>>
  /\ UNCHANGED appends

\* lines 67-71: wiki_tool.run(query), the placeholder when it raises
CallWiki ==
  /\ pc = "wiki"
  /\ \/ \E text \in WikiTexts :
          /\ wiki_result' = text
          /\ calls' = Append(calls, Call("wiki", TRUE))
     \/ /\ wiki_result' = NoWiki
        /\ calls' = Append(calls, Call("wiki", FALSE))
  /\ pc' = "web"
  /\ UNCHANGED <<query, web_result, prompt, response, response_dict, result,
                 served, appends>>

\* variant: a failed web search is tried again
CallWeb_retry ==
  /\ pc = "web"
  /\ \/ \E text \in WebTexts :
          /\ web_result' = text
          /\ calls' = Append(calls, Call("web", TRUE))
          /\ pc' = "generate"
     \/ /\ web_result' = NoWeb
        /\ calls' = Append(calls, Call("web", FALSE))
        /\ pc' = IF \E i \in 1..Len(calls) : calls[i].name = "web"
                 THEN "generate" ELSE "web"
  /\ UNCHANGED <<query, wiki_result, prompt, response, response_dict, result,
                 served, appends>>

\* lines 74-78: search_tool.run(query), the placeholder when it raises
CallWeb ==
  /\ pc = "web"
  /\ \/ \E text \in WebTexts :
          /\ web_result' = text
          /\ calls' = Append(calls, Call("web", TRUE))
     \/ /\ web_result' = NoWeb
        /\ calls' = Append(calls, Call("web", FALSE))
  /\ pc' = "generate"
  /\ UNCHANGED <<query, wiki_result, prompt, response, response_dict, result,
                 served, appends>>

\* line 81
combined_info(wiki, web) == <<"Wikipedia: ", wiki, "\nWeb Search: ", web>>

\* lines 81-114 and 127-129: build the prompt and call llm.invoke; when it
\* raises, research_topic returns None
Generate ==
  /\ pc = "generate"
  /\ prompt' = [query |-> query, combined_info |-> combined_info(wiki_result, web_result)]
  /\ \/ \E text \in Responses :
          /\ response' = text
          /\ calls' = Append(calls, Call("llm", TRUE))
          /\ pc' = "normalize"
          /\ UNCHANGED result
     \/ /\ calls' = Append(calls, Call("llm", FALSE))
        /\ result' = PyNone
        /\ pc' = "display"
        /\ UNCHANGED response
  /\ UNCHANGED <<query, wiki_result, web_result, response_dict, served, appends>>

\* line 117 and 127-129: clean_json_response(response); an exception that
\* leaves it makes research_topic return None
Normalize ==
  /\ pc = "normalize"
  /\ response_dict' = clean_json_response(response)
  /\ calls' = Append(calls, Call("normalize", response_dict'.kind = "return"))
  /\ IF response_dict'.kind = "return"
     THEN pc' = "construct" /\ UNCHANGED result
     ELSE pc' = "display" /\ result' = PyNone
  /\ UNCHANGED <<query, wiki_result, web_result, prompt, response, served, appends>>

\* lines 120-129: the record, or None when building it raises
Construct ==
  /\ pc = "construct"
  /\ LET r == BuildRecord(response_dict.val)
     IN result' = IF r.kind = "return" THEN r.val ELSE PyNone
  /\ pc' = "display"
  /\ UNCHANGED <<query, wiki_result, web_result, prompt, response, response_dict,
                 calls, served, appends>>

\* variant: the record is printed and saved without the test of line 144
Display_unchecked ==
  /\ pc = "display"
  /\ calls' = Append(calls, Call("display", TRUE))
  /\ pc' = "save"
  /\ UNCHANGED <<query, wiki_result, web_result, prompt, response, response_dict,
                 result, served, appends>>

\* lines 144-153 and 158-159: print the record, or the failure message
Display ==
  /\ pc = "display"
  /\ IF result # PyNone
     THEN /\ calls' = Append(calls, Call("display", TRUE))
          /\ pc' = "save"
     ELSE /\ calls' = Append(calls, Call("sorry", TRUE))
          /\ pc' = "prompt"
  /\ UNCHANGED <<query, wiki_result, web_result, prompt, response, response_dict,
                 result, served, appends>>

\* lines 156-157: save_tool.run(str(result)); an exception from it is caught
\* nowhere and ends the process
Save ==
  /\ pc = "save"
  /\ \/ /\ calls' = Append(calls, Call("save", TRUE))
        /\ appends' = appends + 1
        /\ pc' = "prompt"
     \/ /\ calls' = Append(calls, Call("save", FALSE))
        /\ appends' = appends
        /\ pc' = "crashed"
  /\ UNCHANGED <<query, wiki_result, web_result, prompt, response, response_dict,
                 result, served>>

Next ==
  \/ ReadLine
  \/ CallWiki
  \/ CallWeb
  \/ Generate
  \/ Normalize
  \/ Construct
  \/ Display
  \/ Save

Spec == Init /\ [][Next]_vars

\* ------------------------------------------------------------ the properties
Called(cs, name) == \E i \in 1..Len(cs) : cs[i].name = name
Failed(cs, name) == \E i \in 1..Len(cs) : cs[i].name = name /\ ~cs[i].ok
Names(cs) == [i \in 1..Len(cs) |-> cs[i].name]
IsPrefix(a, b) == Len(a) <= Len(b) /\ SubSeq(b, 1, Len(a)) = a

\* clean_json_response has been applied to this query's response
Normalized == response_dict # Unset
\* ... it returned, and lines 120-129 have run on what it returned
Constructed == response_dict.kind = "return" /\ pc # "construct"
ReturnedDict == response_dict.kind = "return" /\ response_dict.val.t = "dict"
\* llm.invoke returned and research_topic has returned
GeneratedAndDone ==
  /\ Called(calls, "llm")
  /\ ~Failed(calls, "llm")
  /\ pc \in {"display", "save", "prompt", "done", "crashed"}

Fields == {"topic", "summary", "sources", "tools_used"}

\* C1: a response that is not valid JSON and has no brace span is turned into
\* the fallback record whose summary is the response cut at 200 characters.
C1_NoSpanFallback ==
  (Normalized /\ json_loads(response).st # "ok" /\ json_match(response) = <<>>)
    => response_dict = Return(FallbackDict(TruncatedSummary(response)))

\* C2: whatever text the generation call returns, clean_json_response returns
\* a mapping and research_topic returns a record, so the query is displayed
\* and not reported as failed.
C2_AlwaysRecord ==
  GeneratedAndDone
    => /\ ReturnedDict
       /\ result # PyNone
       /\ ~Called(calls, "sorry")

\* C3 (as claimed): every record has the four fields, and neither sources nor
\* tools_used is empty.
C3_NeverEmpty ==
  result # PyNone
    => /\ DOMAIN result.v = Fields
       /\ result.v.sources.v # <<>>
       /\ result.v.tools_used.v # <<>>

\* the parsed object supplies key k with an empty list
SuppliesEmpty(k) ==
  /\ ReturnedDict
  /\ k \in DOMAIN response_dict.val.v
  /\ response_dict.val.v[k] = PyList(<<>>)

\* C3 (amended): every record has the four fields; sources (tools_used) is
\* empty only when the parsed object supplies that key with an empty list, so
\* a missing key never gives an empty sequence.
C3_EmptyOnlyWhenSupplied ==
  result # PyNone
    => /\ DOMAIN result.v = Fields
       /\ IsStr(result.v.topic) /\ IsStr(result.v.summary)
       /\ IsStrList(result.v.sources) /\ IsStrList(result.v.tools_used)
       /\ (result.v.sources.v = <<>> => SuppliesEmpty(K_sources))
       /\ (result.v.tools_used.v = <<>> => SuppliesEmpty(K_tools_used))

\* a record whose sources are the empty list of the model's JSON and whose
\* tools_used are the default of the missing key
C3_Witness ==
  /\ result # PyNone
  /\ result.v.sources.v = <<>>
  /\ K_tools_used \notin DOMAIN response_dict.val.v
  /\ result.v.tools_used = DefaultTools

\* the field of the record for key k: the parsed value when the key is
\* present, else the given default
FieldFrom(k, got, default) ==
  IF k \in DOMAIN response_dict.val.v THEN got = response_dict.val.v[k]
  ELSE got = default

\* C4 (as claimed): a parsed object gives a record whose present keys are kept
\* and whose missing keys take the fallback record's values, the summary
\* being the response cut at 200 characters.
C4_SameFallbacks ==
  (Constructed /\ ReturnedDict)
    => /\ result # PyNone
       /\ FieldFrom(K_topic, result.v.topic, DefaultTopic)
       /\ FieldFrom(K_summary, result.v.summary, PyStr(TruncatedSummary(response)))
       /\ FieldFrom(K_sources, result.v.sources, DefaultSources)
       /\ FieldFrom(K_tools_used, result.v.tools_used, DefaultTools)

\* the values the parsed object has for the four keys have the fields' types
PresentWellTyped ==
  LET d == response_dict.val.v
  IN /\ K_topic \in DOMAIN d => IsStr(d[K_topic])
     /\ K_summary \in DOMAIN d => IsStr(d[K_summary])
     /\ K_sources \in DOMAIN d => IsStrList(d[K_sources])
     /\ K_tools_used \in DOMAIN d => IsStrList(d[K_tools_used])

\* C4 (amended): a parsed object whose present values have the fields' types
\* gives a record whose present keys are kept and whose missing keys take
\* "Research Topic", "No summary available", ["Information from search
\* results"] and ["Wikipedia", "Web Search"]; with a present value of another
\* type there is no record.
C4_PerKeyDefaults ==
  (Constructed /\ ReturnedDict)
    => IF PresentWellTyped
       THEN /\ result # PyNone
            /\ FieldFrom(K_topic, result.v.topic, DefaultTopic)
            /\ FieldFrom(K_summary, result.v.summary, PyStr(NoSummaryStr))
            /\ FieldFrom(K_sources, result.v.sources, DefaultSources)
            /\ FieldFrom(K_tools_used, result.v.tools_used, DefaultTools)
       ELSE result = PyNone

\* an object with a topic and sources but neither summary nor tools_used has
\* been turned into a record
C4_Witness ==
  /\ Constructed /\ ReturnedDict
  /\ DOMAIN response_dict.val.v = {K_topic, K_sources}
  /\ result # PyNone
  /\ result.v.summary = PyStr(NoSummaryStr)

\* C5: once llm.invoke has raised for a query there is no record, nothing is
\* displayed or saved, the file is not appended to, the process does not
\* crash and the step after the failure message is the next prompt.
C5_GenerationFailure ==
  [][Failed(calls', "llm")
       => /\ result' = PyNone
          /\ ~Called(calls', "display")
          /\ ~Called(calls', "save")
          /\ appends' = appends
          /\ pc' \in {"display", "prompt", "done"}
          /\ (pc = "display" => pc' = "prompt" /\ Called(calls', "sorry"))]_vars

\* the loop is back at the prompt after a query whose generation call raised
C5_Witness ==
  /\ pc = "prompt"
  /\ Failed(calls, "llm")
  /\ Called(calls, "sorry")

\* C6: a failed lookup is replaced by its placeholder, the other lookup and
\* the generation call are still made with a context built from both texts,
\* and when generation succeeds the query yields a record.
C6_LookupFailureNeverFails ==
  /\ Failed(calls, "wiki") => wiki_result = NoWiki
  /\ Failed(calls, "web") => web_result = NoWeb
  /\ (Failed(calls, "wiki") /\ pc # "web") => Called(calls, "web")
  /\ ((Failed(calls, "wiki") \/ Failed(calls, "web")) /\ pc \notin {"web", "generate"})
       => /\ Called(calls, "llm")
          /\ prompt.combined_info = combined_info(wiki_result, web_result)
  /\ ((Failed(calls, "wiki") \/ Failed(calls, "web")) /\ GeneratedAndDone)
       => result # PyNone

\* the response is a json fence around the text of a JSON object
IsFencedObject(r) ==
  /\ StartsWithAt(r, 1, FenceJson \o <<NL>>)
  /\ Len(r) >= Len(FenceJson) + Len(Fence) + 2
  /\ StartsWithAt(r, Len(r) - Len(Fence), <<NL>> \o Fence)
  /\ LET J == json_loads(SubSeq(r, Len(FenceJson) + 2, Len(r) - Len(Fence) - 1))
     IN J.st = "ok" /\ J.val.t = "dict"

Unfenced(r) == SubSeq(r, Len(FenceJson) + 2, Len(r) - Len(Fence) - 1)

\* C7: for a json fence around a valid JSON object text, clean_json_response
\* returns what it returns for the object text alone.
C7_FenceTransparent ==
  (Normalized /\ IsFencedObject(response))
    => response_dict = clean_json_response(Unfenced(response))

\* an exception that is not a JSONDecodeError in the parse of the whole
\* response, or in the parse of the cleaned candidate
Step1Other == json_loads(response).st = "RecursionError"
Step2Other ==
  /\ json_loads(response).st = "JSONDecodeError"
  /\ json_match(response) # <<>>
  /\ json_loads(Strip(SubFences(json_match(response), 1))).st = "RecursionError"

QuitSpellings ==
  {<<a, b, c, d>> : a \in {"q", "Q"}, b \in {"u", "U"}, c \in {"i", "I"}, d \in {"t", "T"}}

\* C9: a line that spells quit in any letter case ends the loop with no call
\* and no further step; any other line starts a query, and the query ends at
\* the next prompt unless the save call raises.
C9_QuitTerminates ==
  [][
    /\ pc = "prompt"
      => IF query' \in QuitSpellings
         THEN pc' = "done" /\ calls' = calls /\ appends' = appends /\ result' = result
         ELSE pc' = "wiki" /\ calls' = <<>>
    /\ pc # "done"
    /\ pc # "crashed"
    /\ (pc = "display" /\ result = PyNone) => pc' = "prompt"
    /\ pc = "save" => (pc' = "prompt" \/ (pc' = "crashed" /\ Failed(calls', "save")))]_vars

\* the loop has ended on a spelling of quit that is not all lower case, after
\* a query was served
C9_Witness ==
  /\ pc = "done"
  /\ query = <<"q", "U", "i", "T">>
  /\ served > 0

Order == <<"wiki", "web", "llm", "normalize", "display", "save">>

\* the calls of a query without the failure message that may end them
CallsMade(cs) ==
  IF cs # <<>> /\ cs[Len(cs)].name = "sorry" THEN SubSeq(Names(cs), 1, Len(cs) - 1)
  ELSE Names(cs)

\* C10: the calls of a query are a prefix of Wikipedia, web search,
\* generation, normalization, display, append, each at most once; a finished
\* query made exactly one generation call; the file grows only by the one
\* append that follows the display of a record.
C10_CallOrder ==
  [][
    /\ IsPrefix(CallsMade(calls'), Order)
    /\ (Called(calls', "sorry") \/ Called(calls', "display"))
         => Cardinality({i \in 1..Len(calls') : calls'[i].name = "llm"}) = 1
    /\ Called(calls', "display") => result' # PyNone
    /\ appends' # appends
         => /\ appends' = appends + 1
            /\ Names(calls) = SubSeq(Order, 1, 5)
            /\ calls' = Append(calls, Call("save", TRUE))]_vars

\* a query went through all six calls and the loop is back at the prompt
C10_Witness ==
  /\ pc = "prompt"
  /\ Names(calls) = Order
  /\ appends = 2
====
